---------------------------- MODULE Spec2Model ----------------------------
(***************************************************************************)
(* Login and MFA flow of IRIS (app/blueprints/login/login_routes.py).      *)
(*                                                                         *)
(* The state is the Flask session of each browser, the user table, the     *)
(* deployment configuration and the case table.  One action models one     *)
(* request handler (/login, /auth/mfa-verify, /auth/mfa-setup), from its   *)
(* first line to the response, including wrap_login_user when it is        *)
(* called.  The variables response, emitted, logged and request describe   *)
(* the last request served: what it answered, the audit events it handed   *)
(* to track_activity, what it wrote to the server log, the inputs it read  *)
(* and the steps it ran.                                                   *)
(***************************************************************************)
EXTENDS Integers, Sequences, FiniteSets, TLC

VARIABLES
    session,        \* session[s]: the Flask session of browser s
    users,          \* users[u]: the row of the active user with login u
    cases,          \* the set of case ids in the Cases table
    config,         \* the deployment: AUTHENTICATION_TYPE, AUTHENTICATION_LOCAL_FALLBACK,
                    \* and whether the login manager's anonymous user has a `user` attribute
    totp_verified,  \* totp_verified[s]: totp.verify returned True in a request of s
    request,        \* the inputs read by the last request
    response,       \* the response of the last request
    emitted,        \* the track_activity events of the last request
    logged,         \* the log.error lines of the last request
    inflight        \* inflight[p]: a /auth/mfa-setup request served step by step

vars == <<session, users, cases, config, totp_verified, request, response,
          emitted, logged, inflight>>

(***************************************************************************)
(* Bounds of the model.                                                    *)
(***************************************************************************)
MaxUrlLen == 3
MaxCase == 2

(***************************************************************************)
(* Values.                                                                 *)
(***************************************************************************)
None == "None"               \* Python None, where the other values are strings
NoCase == 0                  \* Python None, where the other values are case ids
Sessions == {"b1"}
Users == {"alice", "svc"}    \* logins of the active users
Usernames == Users \cup {"ghost"}   \* submitted logins; "ghost" is no user
Passwords == {"pw1", "pw2"}         \* submitted passwords
Secrets == {"K1", "K2"}      \* values pyotp.random_base32() can return
Tokens == Secrets \cup {"", "000000"}   \* a token is named after the secret it is current for
CaseIds == 1..MaxCase
UrlChars == {"http:", "//", "/", "h", "cid="}   \* the pieces of a submitted `next`
LdapOutcomes == {"True", "False", "raise"}
Procs == {"r1", "r2"}

RECURSIVE SeqsUpTo(_)
SeqsUpTo(n) ==
    IF n = 0 THEN {<<>>}
    ELSE LET shorter == SeqsUpTo(n - 1)
         IN shorter \cup {Append(q, c) : q \in {x \in shorter : Len(x) = n - 1}, c \in UrlChars}

\* request.args.get('next'); <<>> is absent or empty
NextArgs == SeqsUpTo(MaxUrlLen)
\* absent, a path, a path with a case id, a host, a host with an unmatched '['
SomeNextArgs == {<<>>, <<"/", "h">>, <<"/", "cid=">>, <<"//", "h">>, <<"//", "[">>}
NotRead == <<"-">>                \* the handler did not read the input

PasswordOf(u) == IF u = "alice" THEN "pw1" ELSE "pw2"
IsServiceAccount(u) == u = "svc"
CaseName(c) == "case-" \o ToString(c)


(***************************************************************************)
(* Collaborators of the module: the password hash, TOTP, the permission    *)
(* service, url_for and urlsplit.                                          *)
(***************************************************************************)
check_password_hash(user, password) == password = PasswordOf(user)

\* pyotp.TOTP(secret).verify(token)
totp_verify(secret, token) == secret # None /\ token = secret

ac_get_effective_permissions_of_user(user) == "permissions-of-" \o user

\* str() of the user object, as formatted into the message of line 164
UserRepr(user) == "<User " \o user \o ">"

track_activity(text, arg) == [text |-> text, arg |-> arg]

UrlLogin == <<"/", "login">>
UrlMfaVerify == <<"/", "auth", "/", "mfa-verify">>
UrlMfaSetup == <<"/", "auth", "/", "mfa-setup">>
UrlIndex == <<"/">>
url_for_index(cid) == <<"/", "?", "cid=", ToString(cid)>>

\* 'cid=' in url
HasCid(url) == \E i \in 1..Len(url) : url[i] = "cid="

\* the characters of a URL given by its pieces
RECURSIVE Chars(_)
Chars(url) ==
    IF url = <<>> THEN <<>>
    ELSE (IF Head(url) = "//" THEN <<"/", "/">> ELSE <<Head(url)>>) \o Chars(Tail(url))

\* urlsplit: the scheme is what precedes the first ':' when it is a letter
\* followed by scheme characters; the network location is what follows a
\* leading '//' of the rest, up to the next '/' or '?'; a '[' in it without
\* a ']' raises ValueError.
SchemeEnd(url) ==
    LET colons == {i \in 1..Len(url) : url[i] = "http:"}
    IN IF colons = {} THEN 0
       ELSE LET i == CHOOSE j \in colons : \A k \in colons : j <= k
            IN IF \A k \in 1..(i - 1) : url[k] = "h" THEN i ELSE 0

HasScheme(url) == SchemeEnd(Chars(url)) > 0

Netloc(url) ==
    LET chars == Chars(url)
        rest == SubSeq(chars, SchemeEnd(chars) + 1, Len(chars))
    IN IF Len(rest) >= 2 /\ rest[1] = "/" /\ rest[2] = "/"
       THEN LET delims == {i \in 3..Len(rest) : rest[i] \in {"/", "?"}}
                stop == IF delims = {} THEN Len(rest) + 1
                        ELSE CHOOSE j \in delims : \A k \in delims : j <= k
            IN SubSeq(rest, 3, stop - 1)
       ELSE <<>>

UrlsplitRaises(url) == \E i \in 1..Len(Netloc(url)) : Netloc(url)[i] = "["

(***************************************************************************)
(* Responses and the result of running a handler.                          *)
(***************************************************************************)
Render(template, msg, flash, qr) ==
    [kind |-> "render", template |-> template, msg |-> msg, flash |-> flash,
     location |-> <<>>, qr |-> qr]

Redirect(location) ==
    [kind |-> "redirect", template |-> "", msg |-> "", flash |-> "",
     location |-> location, qr |-> "-"]

\* what Flask answers when a handler raises
Error500 ==
    [kind |-> "error", template |-> "", msg |-> "", flash |-> "",
     location |-> <<>>, qr |-> "-"]

\* what login_required answers to an anonymous session
Unauthorized == Redirect(UrlLogin)

WrongCredentials == "Wrong credentials. Please try again."
LdapUnavailable == "LDAP authentication unavailable. Check server logs"

render_template_login(msg) == Render("login.html", msg, "", "-")

\* A handler that returned resp.
Done(sess, db, resp, events) ==
    [sess |-> sess, users |-> db, resp |-> resp, events |-> events, log |-> <<>>,
     exc |-> "", wrapped |-> FALSE, finalized |-> FALSE, verified |-> FALSE,
     generated |-> FALSE, secret |-> "-", next |-> NotRead]

\* A handler that raised exc, with the session and the committed rows as
\* they were at that point.
Raised(sess, db, exc, events) ==
    [sess |-> sess, users |-> db, resp |-> Error500, events |-> events, log |-> <<>>,
     exc |-> exc, wrapped |-> FALSE, finalized |-> FALSE, verified |-> FALSE,
     generated |-> FALSE, secret |-> "-", next |-> NotRead]

\* The events a caller emitted before the call that gave r.
After(events, r) == [r EXCEPT !.events = events \o @]

\* line 153 ordered the other way
Lowest_Descending(cs) == CHOOSE c \in cs : \A d \in cs : c >= d

\* line 153: Cases.query.order_by(Cases.case_id).first()
Lowest(cs) == CHOOSE c \in cs : \A d \in cs : c <= d

(***************************************************************************)
(* The handlers, as functions of the session, the user table and the       *)
(* request's inputs.                                                       *)
(***************************************************************************)

\* get_active_user_by_login and the audit of an unknown login
retrieve_user_by_username(db, username) ==
    LET user == IF username \in DOMAIN db THEN username ELSE None
    IN [user |-> user,
        events |-> IF user = None
                   THEN <<track_activity("someone tried to log in with user, which does not exist", username)>>
                   ELSE <<>>]

\* current_user.user: the login of the user bound to the session; for an
\* anonymous session it is the attribute of the login manager's anonymous
\* user, which has it (anon) or raises AttributeError (None here).
current_user_user(sess, anon) ==
    IF sess.user_id # None THEN sess.user_id
    ELSE IF anon THEN "anonymous" ELSE None

\* lines 166-171: the redirect target before the netloc check
NextCandidate(nextarg, cid) ==
    IF nextarg # <<>>
    THEN IF HasCid(nextarg) THEN nextarg ELSE nextarg \o <<"?", "cid=", ToString(cid)>>
    ELSE <<>>

\* lines 169-170 without the netloc test
NextUrl_NoNetlocCheck(nextarg, cid) ==
    LET next_url == NextCandidate(nextarg, cid)
    IN IF next_url = <<>> THEN url_for_index(cid) ELSE next_url

\* lines 166-171
NextUrl(nextarg, cid) ==
    LET next_url == NextCandidate(nextarg, cid)
    IN IF next_url = <<>> \/ Netloc(next_url) # <<>> THEN url_for_index(cid) ELSE next_url

wrap_login_user(sess, db, cs, user, nextarg) ==
    LET s1 == [sess EXCEPT !.username = user]
    IN IF s1.mfa_verified # "True"
       THEN [Done(s1, db, Redirect(UrlMfaVerify), <<>>) EXCEPT !.wrapped = TRUE]
       ELSE
         LET s2 == [s1 EXCEPT !.user_id = user,
                              !.permissions = ac_get_effective_permissions_of_user(user)]
             ev1 == track_activity("user successfully logged-in", user)
         IN IF db[user].ctx_case = NoCase /\ cs = {}
            THEN [Raised(s2, db, "AttributeError", <<ev1>>) EXCEPT !.wrapped = TRUE]
            ELSE
              LET db2 == IF db[user].ctx_case = NoCase
                         THEN [db EXCEPT ![user].ctx_case = Lowest(cs),
                                         ![user].ctx_human_case = CaseName(Lowest(cs))]
                         ELSE db
                  cid == db2[user].ctx_case
                  s3 == [s2 EXCEPT !.current_case =
                            [case_name |-> db2[user].ctx_human_case,
                             case_info |-> "",
                             case_id |-> cid]]
                  ev2 == track_activity("user successfully logged-in", UserRepr(user))
                  next_url == NextCandidate(nextarg, cid)
              IN IF next_url # <<>> /\ UrlsplitRaises(next_url)
                 THEN [Raised(s3, db2, "ValueError", <<ev1, ev2>>)
                          EXCEPT !.wrapped = TRUE, !.next = nextarg]
                 ELSE [Done(s3, db2, Redirect(NextUrl(nextarg, cid)), <<ev1, ev2>>)
                          EXCEPT !.wrapped = TRUE, !.finalized = TRUE, !.next = nextarg]

\* lines 100-110 with a message of its own for an unknown user at line 103
authenticate_password_UnknownUserMessage(sess, db, cs, username, password, nextarg) ==
    LET r == retrieve_user_by_username(db, username)
    IN IF r.user = None
       THEN Done(sess, db, render_template_login("Unknown user"), r.events)
       ELSE IF IsServiceAccount(r.user)
       THEN Done(sess, db, render_template_login(WrongCredentials), r.events)
       ELSE IF check_password_hash(r.user, password)
       THEN wrap_login_user(sess, db, cs, r.user, nextarg)
       ELSE Done(sess, db, render_template_login(WrongCredentials),
                 <<track_activity("wrong login password for user using local auth", username)>>)

\* lines 100-110 with session['username'] set before the password is checked
authenticate_password_PendingFirst(sess, db, cs, username, password, nextarg) ==
    LET r == retrieve_user_by_username(db, username)
    IN IF r.user = None \/ IsServiceAccount(r.user)
       THEN Done(sess, db, render_template_login(WrongCredentials), r.events)
       ELSE IF check_password_hash(r.user, password)
       THEN wrap_login_user(sess, db, cs, r.user, nextarg)
       ELSE Done([sess EXCEPT !.username = r.user], db, render_template_login(WrongCredentials),
                 <<track_activity("wrong login password for user using local auth", username)>>)

\* lines 100-110 without the is_service_account test of line 102
authenticate_password_AnyAccount(sess, db, cs, username, password, nextarg) ==
    LET r == retrieve_user_by_username(db, username)
    IN IF r.user = None
       THEN Done(sess, db, render_template_login(WrongCredentials), r.events)
       ELSE IF check_password_hash(r.user, password)
       THEN wrap_login_user(sess, db, cs, r.user, nextarg)
       ELSE Done(sess, db, render_template_login(WrongCredentials),
                 <<track_activity("wrong login password for user using local auth", username)>>)

\* lines 100-110
authenticate_password(sess, db, cs, username, password, nextarg) ==
    LET r == retrieve_user_by_username(db, username)
    IN IF r.user = None \/ IsServiceAccount(r.user)
       THEN Done(sess, db, render_template_login(WrongCredentials), r.events)
       ELSE IF check_password_hash(r.user, password)
       THEN wrap_login_user(sess, db, cs, r.user, nextarg)
       ELSE Done(sess, db, render_template_login(WrongCredentials),
                 <<track_activity("wrong login password for user using local auth", username)>>)

\* ldap_authenticate(username, password) gave ldap: True, False, or it raised
\* lines 77-97 without the local_fallback test of line 80
authenticate_ldap_AlwaysFallback(sess, db, cs, username, password, local_fallback, ldap, nextarg) ==
    LET try ==
          IF ldap = "raise" THEN Raised(sess, db, "LDAPException", <<>>)
          ELSE IF ldap = "False"
          THEN After(<<track_activity("wrong login password for user using LDAP auth - falling back to local based on settings", username)>>,
                     authenticate_password(sess, db, cs, username, password, nextarg))
          ELSE LET r == retrieve_user_by_username(db, username)
               IN IF r.user = None
                  THEN Done(sess, db, render_template_login(WrongCredentials), r.events)
                  ELSE wrap_login_user(sess, db, cs, r.user, nextarg)
    IN IF try.exc # ""
       THEN [try EXCEPT !.resp = render_template_login(LdapUnavailable),
                        !.log = <<try.exc>>,
                        !.exc = ""]
       ELSE try

\* lines 77-97 with an except branch that answers as lines 86-88 do
authenticate_ldap_FaultAsWrong(sess, db, cs, username, password, local_fallback, ldap, nextarg) ==
    LET try ==
          IF ldap = "raise" THEN Raised(sess, db, "LDAPException", <<>>)
          ELSE IF ldap = "False"
          THEN IF local_fallback
               THEN After(<<track_activity("wrong login password for user using LDAP auth - falling back to local based on settings", username)>>,
                          authenticate_password(sess, db, cs, username, password, nextarg))
               ELSE Done(sess, db, render_template_login(WrongCredentials),
                         <<track_activity("wrong login password for user using LDAP auth", username)>>)
          ELSE LET r == retrieve_user_by_username(db, username)
               IN IF r.user = None
                  THEN Done(sess, db, render_template_login(WrongCredentials), r.events)
                  ELSE wrap_login_user(sess, db, cs, r.user, nextarg)
    IN IF try.exc # ""
       THEN [try EXCEPT !.resp = render_template_login(WrongCredentials),
                        !.events = @ \o <<track_activity("wrong login password for user using LDAP auth", username)>>,
                        !.exc = ""]
       ELSE try

\* lines 77-97
authenticate_ldap(sess, db, cs, username, password, local_fallback, ldap, nextarg) ==
    LET try ==
          IF ldap = "raise" THEN Raised(sess, db, "LDAPException", <<>>)
          ELSE IF ldap = "False"
          THEN IF local_fallback
               THEN After(<<track_activity("wrong login password for user using LDAP auth - falling back to local based on settings", username)>>,
                          authenticate_password(sess, db, cs, username, password, nextarg))
               ELSE Done(sess, db, render_template_login(WrongCredentials),
                         <<track_activity("wrong login password for user using LDAP auth", username)>>)
          ELSE LET r == retrieve_user_by_username(db, username)
               IN IF r.user = None
                  THEN Done(sess, db, render_template_login(WrongCredentials), r.events)
                  ELSE wrap_login_user(sess, db, cs, r.user, nextarg)
    IN IF try.exc # ""
       THEN [try EXCEPT !.resp = render_template_login(LdapUnavailable),
                        !.log = <<try.exc>>,
                        !.exc = ""]
       ELSE try

login(sess, db, cs, cfg, submitted, valid, username, password, ldap, nextarg) ==
    LET s1 == [sess EXCEPT !.permanent = TRUE]
    IN IF s1.user_id # None
       THEN Done(s1, db, Redirect(UrlIndex), <<>>)
       ELSE IF ~submitted /\ ~valid
       THEN Done(s1, db, render_template_login(None), <<>>)
       ELSE IF cfg.type = "ldap"
       THEN authenticate_ldap(s1, db, cs, username, password, cfg.local_fallback, ldap, nextarg)
       ELSE authenticate_password(s1, db, cs, username, password, nextarg)

mfa_verify(sess, db, cs, cfg, valid, token, nextarg) ==
    IF sess.username = None
    THEN Done(sess, db, Redirect(UrlLogin), <<>>)
    ELSE
      LET s1 == [sess EXCEPT !.mfa_verified = "False"]
          r == retrieve_user_by_username(db, sess.username)
          user == r.user
      IN IF user = None
         THEN Raised(s1, db, "AttributeError", r.events)
         ELSE IF db[user].mfa_secrets = None
         THEN IF current_user_user(s1, cfg.anonymous_has_user) = None
              THEN Raised(s1, db, "AttributeError", <<>>)
              ELSE Done([s1 EXCEPT !.user_id = user], db, Redirect(UrlMfaSetup),
                        <<track_activity("MFA required but not enabled for user", current_user_user(s1, cfg.anonymous_has_user))>>)
         ELSE IF valid
         THEN IF token = ""
              THEN Done(s1, db, Render("mfa_verify.html", "", "Token is required.", "-"), <<>>)
              ELSE IF totp_verify(db[user].mfa_secrets, token)
              THEN LET s2 == [s1 EXCEPT !.username = None, !.mfa_verified = "True"]
                   IN IF current_user_user(s2, cfg.anonymous_has_user) = None
                      THEN [Raised(s2, db, "AttributeError", <<>>) EXCEPT !.verified = TRUE]
                      ELSE [After(<<track_activity("MFA verified for user", current_user_user(s2, cfg.anonymous_has_user))>>,
                                  wrap_login_user(s2, db, cs, user, nextarg))
                               EXCEPT !.verified = TRUE]
              ELSE IF current_user_user(s1, cfg.anonymous_has_user) = None
              THEN Raised(s1, db, "AttributeError", <<>>)
              ELSE Done(s1, db, Render("mfa_verify.html", "", "Invalid token. Please try again.", "-"),
                        <<track_activity("MFA invalid for user. Login aborted", current_user_user(s1, cfg.anonymous_has_user))>>)
         ELSE Done(s1, db, Render("mfa_verify.html", "", "", "-"), <<>>)

\* lines 182-184 without the test of line 182
ensure_secret_Always(db, user, fresh) ==
    [db EXCEPT ![user].mfa_secrets = fresh]

\* lines 182-184: the secret is generated when the row has none
ensure_secret(db, user, fresh) ==
    IF db[user].mfa_secrets = None
    THEN [db EXCEPT ![user].mfa_secrets = fresh]
    ELSE db

\* lines 186-202, with secret the value of user.mfa_secrets read there
mfa_setup_respond(sess, db, cs, user, secret, valid, token, nextarg) ==
    IF valid
    THEN IF totp_verify(secret, token)
         THEN LET db2 == [db EXCEPT ![user].mfa_enabled = TRUE]
              IN [After(<<track_activity("MFA setup successful for user", user)>>,
                        wrap_login_user(sess, db2, cs, user, nextarg))
                    EXCEPT !.verified = TRUE, !.secret = secret]
         ELSE [Done(sess, db,
                    Render("mfa_setup.html", "", "Invalid token. Please try again.", secret),
                    <<>>)
                  EXCEPT !.secret = secret]
    ELSE [Done(sess, db, Render("mfa_setup.html", "", "", secret), <<>>)
             EXCEPT !.secret = secret]

mfa_setup(sess, db, cs, valid, token, fresh, nextarg) ==
    IF sess.user_id = None
    THEN Done(sess, db, Unauthorized, <<>>)
    ELSE
      LET user == sess.user_id
          db1 == IF valid THEN ensure_secret(db, user, fresh) ELSE db
      IN [mfa_setup_respond(sess, db1, cs, user, db1[user].mfa_secrets, valid, token, nextarg)
            EXCEPT !.generated = db1[user].mfa_secrets # db[user].mfa_secrets]

(***************************************************************************)
(* The initial state: fresh browser sessions, a user table whose rows have *)
(* no secret or an enrolled one and no default case or an existing one, at *)
(* least one case, and one of the configurations the routes are            *)
(* registered under (line 115).                                            *)
(***************************************************************************)
NoCurrentCase == [case_name |-> None, case_info |-> "", case_id |-> NoCase]

NewSession ==
    [permanent |-> FALSE, username |-> None, mfa_verified |-> "absent",
     user_id |-> None, permissions |-> None, current_case |-> NoCurrentCase]

UserRow(k, e, c) ==
    [mfa_secrets |-> k, mfa_enabled |-> e, ctx_case |-> c,
     ctx_human_case |-> IF c = NoCase THEN None ELSE CaseName(c)]

UserRows(cs) ==
    {UserRow(k, e, c) : k \in {None, "K1"}, e \in BOOLEAN, c \in {NoCase} \cup cs}

Configs ==
    {[type |-> c[1], local_fallback |-> c[2], anonymous_has_user |-> a] :
        c \in {<<"local", FALSE>>, <<"ldap", FALSE>>, <<"ldap", TRUE>>}, a \in BOOLEAN}

IdleRequest == [pc |-> "idle", browser |-> None, sess |-> NewSession, user |-> None,
                secret |-> None, generated |-> FALSE, valid |-> FALSE, token |-> ""]

NoRequest ==
    [route |-> "-", browser |-> None, username |-> "-", password |-> "-", ldap |-> "-",
     token |-> "-", next |-> NotRead, exc |-> "",
     wrapped |-> FALSE, finalized |-> FALSE, verified |-> FALSE, generated |-> FALSE,
     secret |-> "-"]

Init ==
    /\ session = [s \in Sessions |-> NewSession]
    /\ cases \in (SUBSET CaseIds) \ {{}}
    /\ \E row \in UserRows(cases) :
         /\ row.mfa_enabled => row.mfa_secrets # None
         /\ users = [u \in Users |-> IF u = "alice" THEN row ELSE UserRow(None, FALSE, NoCase)]
    /\ config \in Configs
    /\ totp_verified = [s \in Sessions |-> FALSE]
    /\ request = NoRequest
    /\ response = Render("", "", "", "-")
    /\ emitted = <<>>
    /\ logged = <<>>
    /\ inflight = [p \in Procs |-> IdleRequest]

(***************************************************************************)
(* Serving a request.  When the handler raises, Flask answers 500; the     *)
(* session as it was at the raise is written to the cookie by the error    *)
(* response (saved), or the exception propagates and the cookie is left    *)
(* as it was.                                                              *)
(***************************************************************************)
Serve(s, r, saved, req) ==
    /\ session' = [session EXCEPT ![s] = IF r.exc # "" /\ ~saved THEN @ ELSE r.sess]
    /\ users' = r.users
    /\ totp_verified' = [totp_verified EXCEPT ![s] = @ \/ r.verified]
    /\ response' = IF r.exc # "" THEN Error500 ELSE r.resp
    /\ emitted' = r.events
    /\ logged' = r.log
    /\ request' = [req EXCEPT !.browser = s, !.next = r.next, !.exc = r.exc,
                              !.wrapped = r.wrapped, !.finalized = r.finalized,
                              !.verified = r.verified, !.generated = r.generated,
                              !.secret = r.secret]
    /\ UNCHANGED <<cases, config>>

\* the values of an input that the handler reads only on some paths
Saved(r) == IF r.exc # "" THEN BOOLEAN ELSE {TRUE}
NextRead(r, nexts) == IF r.next # NotRead THEN nexts ELSE {<<>>}

\* a GET carries no form: the fields default to ''
FormUsernames(submitted) == IF submitted THEN Usernames ELSE {""}
FormPasswords(submitted) == IF submitted THEN Passwords ELSE {""}

Login(s, nexts) ==
    \E submitted, valid \in BOOLEAN :
      /\ session[s].user_id # None => ~submitted /\ ~valid
      /\ LET read == (submitted \/ valid) /\ session[s].user_id = None
         IN \E username \in (IF read THEN FormUsernames(submitted) ELSE {""}),
               password \in (IF read THEN FormPasswords(submitted) ELSE {""}),
               ldap \in (IF read /\ config.type = "ldap" THEN LdapOutcomes ELSE {"True"}) :
              \E r0 \in {login(session[s], users, cases, config, submitted, valid,
                                username, password, ldap, <<>>)} :
              \E nextarg \in NextRead(r0, nexts) :
              \E r \in {login(session[s], users, cases, config, submitted, valid,
                               username, password, ldap, nextarg)} :
                   \E saved \in Saved(r) :
                     Serve(s, r, saved,
                           [NoRequest EXCEPT
                               !.route = "login",
                               !.username = IF read THEN username ELSE "-",
                               !.password = IF read THEN password ELSE "-",
                               !.ldap = IF read /\ config.type = "ldap" THEN ldap ELSE "-"])
      /\ UNCHANGED inflight

MfaVerify(s, nexts) ==
    \E valid \in BOOLEAN :
      \E token \in (IF valid THEN Tokens ELSE {""}) :
        /\ \E r0 \in {mfa_verify(session[s], users, cases, config, valid, token, <<>>)} :
           \E nextarg \in NextRead(r0, nexts) :
           \E r \in {mfa_verify(session[s], users, cases, config, valid, token, nextarg)} :
                \E saved \in Saved(r) :
                  Serve(s, r, saved,
                        [NoRequest EXCEPT !.route = "mfa_verify",
                                          !.token = IF valid THEN token ELSE "-"])
        /\ UNCHANGED inflight

\* what pyotp.random_base32() returns to a request that calls it
FreshSecrets(s, valid) ==
    IF valid /\ session[s].user_id # None /\ users[session[s].user_id].mfa_secrets = None
    THEN Secrets ELSE {None}

MfaSetup(s, nexts) ==
    \E valid \in BOOLEAN :
      \E token \in (IF valid THEN Tokens ELSE {""}), fresh \in FreshSecrets(s, valid) :
        /\ \E r0 \in {mfa_setup(session[s], users, cases, valid, token, fresh, <<>>)} :
           \E nextarg \in NextRead(r0, nexts) :
           \E r \in {mfa_setup(session[s], users, cases, valid, token, fresh, nextarg)} :
                \E saved \in Saved(r) :
                  Serve(s, r, saved,
                        [NoRequest EXCEPT !.route = "mfa_setup",
                                          !.token = IF valid THEN token ELSE "-"])
        /\ UNCHANGED inflight

Next ==
    \/ \E s \in Sessions : Login(s, SomeNextArgs)
    \/ \E s \in Sessions : MfaVerify(s, SomeNextArgs)
    \/ \E s \in Sessions : MfaSetup(s, SomeNextArgs)

Spec == Init /\ [][Next]_vars

(***************************************************************************)
(* The same handlers with every `next` of at most MaxUrlLen characters,    *)
(* from the initial states with local authentication, every case and an    *)
(* enrolled user who has no default case yet, where an anonymous           *)
(* current_user has a `user`.                                              *)
(***************************************************************************)
InitUrls ==
    /\ Init
    /\ config.type = "local"
    /\ cases = CaseIds
    /\ users["alice"].mfa_enabled
    /\ users["alice"].ctx_case = NoCase
    /\ config.anonymous_has_user

NextUrls ==
    \/ \E s \in Sessions : Login(s, NextArgs)
    \/ \E s \in Sessions : MfaVerify(s, NextArgs)
    \/ \E s \in Sessions : MfaSetup(s, NextArgs)

SpecUrls == InitUrls /\ [][NextUrls]_vars

(***************************************************************************)
(* The same handlers with every `next` of at most MaxUrlLen pieces that    *)
(* are a '/', a name, a '?' or 'cid=', from the initial states of          *)
(* SpecUrls.                                                               *)
(***************************************************************************)
QueryChars == {"/", "h", "?", "cid="}

RECURSIVE SeqsOver(_, _)
SeqsOver(chars, n) ==
    IF n = 0 THEN {<<>>}
    ELSE LET shorter == SeqsOver(chars, n - 1)
         IN shorter \cup {Append(q, c) : q \in {x \in shorter : Len(x) = n - 1}, c \in chars}

QueryArgs == SeqsOver(QueryChars, MaxUrlLen)

NextQuery ==
    \/ \E s \in Sessions : Login(s, QueryArgs)
    \/ \E s \in Sessions : MfaVerify(s, QueryArgs)
    \/ \E s \in Sessions : MfaSetup(s, QueryArgs)

SpecQuery == InitUrls /\ [][NextQuery]_vars

(***************************************************************************)
(* The same handlers while the rest of the application creates and deletes *)
(* cases between requests (the table read at line 153), from the initial   *)
(* states with local authentication in which the user has no default case. *)
(***************************************************************************)
CasesChange ==
    /\ \E cs \in SUBSET CaseIds : cs # cases /\ cases' = cs
    /\ request' = NoRequest
    /\ UNCHANGED <<session, users, config, totp_verified, response, emitted, logged, inflight>>

InitCases ==
    /\ Init
    /\ config.type = "local"
    /\ config.anonymous_has_user
    /\ users["alice"].ctx_case = NoCase

NextCases ==
    \/ \E s \in Sessions : Login(s, {<<>>})
    \/ \E s \in Sessions : MfaVerify(s, {<<>>})
    \/ \E s \in Sessions : MfaSetup(s, {<<>>})
    \/ CasesChange

SpecCases == InitCases /\ [][NextCases]_vars

(***************************************************************************)
(* Requests to /auth/mfa-setup served concurrently.  Each request works on *)
(* its own copy of the session and of the user's row: SetupLoad is         *)
(* login_required and the load of current_user, SetupEnsure is lines       *)
(* 182-184 (the test reads the loaded row, the commit writes the column    *)
(* and expires the row), SetupRespond is lines 186-202 (a row expired by   *)
(* the commit is read again from the table).  /login and /auth/mfa-verify  *)
(* are served in one step.  The initial states are those with local        *)
(* authentication in which no user has a secret.                           *)
(***************************************************************************)
SetupLoad(p, s) ==
    /\ inflight[p].pc \in {"idle", "done"}
    /\ session[s].user_id # None
    /\ \E valid \in BOOLEAN :
       \E token \in (IF valid THEN Tokens ELSE {""}) :
         inflight' = [inflight EXCEPT ![p] =
            [pc |-> "loaded", browser |-> s, sess |-> session[s],
             user |-> session[s].user_id,
             secret |-> users[session[s].user_id].mfa_secrets,
             generated |-> FALSE, valid |-> valid, token |-> token]]
    /\ UNCHANGED <<session, users, cases, config, totp_verified, request, response,
                   emitted, logged>>

SetupEnsure(p) ==
    /\ inflight[p].pc = "loaded"
    /\ IF inflight[p].valid /\ inflight[p].secret = None
       THEN \E fresh \in Secrets :
              /\ users' = [users EXCEPT ![inflight[p].user].mfa_secrets = fresh]
              /\ inflight' = [inflight EXCEPT ![p].pc = "ensured", ![p].generated = TRUE,
                                              ![p].secret = "expired"]
       ELSE /\ users' = users
            /\ inflight' = [inflight EXCEPT ![p].pc = "ensured"]
    /\ UNCHANGED <<session, cases, config, totp_verified, request, response, emitted, logged>>

SetupRespond(p, nexts) ==
    /\ inflight[p].pc = "ensured"
    /\ LET s == inflight[p].browser
           user == inflight[p].user
           secret == IF inflight[p].secret = "expired" THEN users[user].mfa_secrets
                     ELSE inflight[p].secret
       IN \E r0 \in {mfa_setup_respond(inflight[p].sess, users, cases, user, secret,
                                       inflight[p].valid, inflight[p].token, <<>>)} :
          \E nextarg \in NextRead(r0, nexts) :
          \E r1 \in {mfa_setup_respond(inflight[p].sess, users, cases, user, secret,
                                       inflight[p].valid, inflight[p].token, nextarg)} :
          \E r \in {[r1 EXCEPT !.generated = inflight[p].generated]} :
          \E saved \in Saved(r) :
            /\ Serve(s, r, saved,
                     [NoRequest EXCEPT !.route = "mfa_setup",
                                       !.token = IF inflight[p].valid THEN inflight[p].token
                                                 ELSE "-"])
            /\ inflight' = [inflight EXCEPT ![p] =
                  [IdleRequest EXCEPT !.pc = "done", !.user = user, !.secret = secret,
                                      !.valid = inflight[p].valid,
                                      !.generated = inflight[p].generated]]

NextConcurrent ==
    \/ \E s \in Sessions : Login(s, {<<>>})
    \/ \E s \in Sessions : MfaVerify(s, {<<>>})
    \/ \E p \in Procs, s \in Sessions : SetupLoad(p, s)
    \/ \E p \in Procs : SetupEnsure(p)
    \/ \E p \in Procs : SetupRespond(p, {<<>>})

InitConcurrent ==
    /\ Init
    /\ config = [type |-> "local", local_fallback |-> FALSE, anonymous_has_user |-> TRUE]
    /\ cases = CaseIds
    /\ users["alice"] = UserRow(None, FALSE, NoCase)

SpecConcurrent == InitConcurrent /\ [][NextConcurrent]_vars

(***************************************************************************)
(* Properties of the login flow.                                           *)
(***************************************************************************)
Browser == request.browser
Authenticated(s) == session[s].user_id # None
LoginSubmission == request.route = "login" /\ request.username # "-"
LoginFailed ==
    /\ LoginSubmission
    /\ response.kind = "render"
    /\ response.msg \in {WrongCredentials, LdapUnavailable}

\* C1: a session is bound to a user by login_user only if a TOTP token was
\* verified in that session, and a credential check that passes while the
\* marker is not set only redirects to /auth/mfa-verify.
C1_LoginOnlyAfterTotp ==
    /\ \A s \in Sessions : Authenticated(s) => totp_verified[s]
    /\ (LoginSubmission /\ request.wrapped /\ session[Browser].mfa_verified # "True")
          => response = Redirect(UrlMfaVerify) /\ ~Authenticated(Browser)

\* C2: after a request to /auth/mfa-verify verified the token and answered,
\* the session holds no pending username.
C2_PendingUsernameCleared ==
    (request.route = "mfa_verify" /\ request.verified /\ request.exc = "")
        => session[Browser].username = None

\* C3: every session bound to a user has a case context whose case id is not
\* None and is the ctx_case of the user's row.
C3_AuthenticatedHasCase ==
    \A s \in Sessions :
        Authenticated(s) =>
            /\ session[s].current_case.case_id # NoCase
            /\ session[s].current_case.case_id = users[session[s].user_id].ctx_case

\* C5: a request to /auth/mfa-setup whose token verifies persists
\* mfa_enabled and completes the login in the same request, instead of
\* redirecting to /auth/mfa-verify.
C5_SetupCompletesLogin ==
    (request.route = "mfa_setup" /\ request.verified /\ request.exc = "")
        => /\ users[session[Browser].user_id].mfa_enabled
           /\ request.finalized
           /\ response # Redirect(UrlMfaVerify)

\* C6: once the row of a user has a secret, no request changes it, and
\* ensuring the secret of any row a second time, whatever random_base32
\* returns, gives the secret of the first time.
C6_SecretGeneratedOnce ==
    [][ /\ \A u \in Users :
             users[u].mfa_secrets # None => users'[u].mfa_secrets = users[u].mfa_secrets
        /\ \A u \in Users : \A f1, f2 \in Secrets :
             LET once == ensure_secret(users', u, f1)
             IN ensure_secret(once, u, f2)[u].mfa_secrets = once[u].mfa_secrets
      ]_vars

\* a setup request kept the secret that an earlier request had generated
C6_Witness ==
    /\ request.route = "mfa_setup"
    /\ request.token # "-"
    /\ Authenticated(Browser)
    /\ ~request.generated
    /\ users[session[Browser].user_id].mfa_secrets = "K2"

\* C8: every failed credential check emits an audit event that names the
\* submitted username, no event of a login submission contains the
\* password, and a check that succeeds emits no event before the hand-off
\* to wrap_login_user.
VerifierEvents ==
    {i \in 1..Len(emitted) : emitted[i].text # "user successfully logged-in"}

C8_FailureAudited ==
    LoginSubmission =>
        /\ LoginFailed => \E i \in VerifierEvents : emitted[i].arg = request.username
        /\ \A i \in 1..Len(emitted) : emitted[i].arg # request.password
        /\ request.wrapped => VerifierEvents = {}

\* C9: in local mode a service account is answered the generic wrong
\* credentials page whatever the password, and wrap_login_user is not
\* entered.
C9_ServiceAccountRejected ==
    (LoginSubmission /\ config.type = "local" /\ request.username \in Users
        /\ IsServiceAccount(request.username))
        => /\ response = render_template_login(WrongCredentials)
           /\ ~request.wrapped
           /\ ~Authenticated(Browser)

\* a service account submitted its own password in local mode
C9_Witness ==
    /\ LoginSubmission
    /\ config.type = "local"
    /\ request.username = "svc"
    /\ request.password = PasswordOf("svc")

\* C10: with fallback enabled, a submission that the directory rejects has
\* the outcome of local-mode verification of the same username and
\* password in the same state: the same response, session and user table.
LocalOutcome(s, req) ==
    login(session[s], users, cases, [config EXCEPT !.type = "local"], TRUE, TRUE,
          req.username, req.password, "True",
          IF req.next = NotRead THEN <<>> ELSE req.next)

C10_FallbackEqualsLocal ==
    [][ (/\ request'.route = "login"
         /\ request'.username # "-"
         /\ config.type = "ldap"
         /\ config.local_fallback
         /\ request'.ldap = "False")
        => LET local == LocalOutcome(request'.browser, request')
           IN /\ response' = (IF local.exc # "" THEN Error500 ELSE local.resp)
              /\ users' = local.users
              /\ session'[request'.browser] \in
                    (IF local.exc # "" THEN {session[request'.browser], local.sess}
                     ELSE {local.sess})
      ]_vars

\* C4: the finalize step never redirects to a URL with a network location,
\* and when `next` is absent or has a network location it redirects to the
\* index page with the user's case id.
C4_NoOpenRedirect ==
    request.finalized =>
        /\ response.kind = "redirect"
        /\ Netloc(response.location) = <<>>
        /\ (request.next = <<>> \/ Netloc(request.next) # <<>>)
              => response.location = url_for_index(users[session[Browser].user_id].ctx_case)

\* the finalize step was given a `next` with a scheme and a host
C4_Witness ==
    /\ request.finalized
    /\ HasScheme(request.next)
    /\ Netloc(request.next) # <<>>

\* C7: requests to /auth/mfa-setup served concurrently do not overwrite a
\* secret: every request that answered used the secret the user's row
\* holds.
C7_ConcurrentSetupOneSecret ==
    \A p \in Procs :
        (inflight[p].pc = "done" /\ inflight[p].valid)
            => inflight[p].secret = users[inflight[p].user].mfa_secrets

\* C11: in directory mode without fallback, a submission that the directory
\* rejects is answered the wrong credentials page and local verification
\* is not attempted: no user lookup is audited, wrap_login_user is not
\* entered, and the session and the user table are as they were, whatever
\* the local password.
C11_NoFallbackNoLocal ==
    [][ (/\ request'.route = "login"
         /\ request'.username # "-"
         /\ config.type = "ldap"
         /\ ~config.local_fallback
         /\ request'.ldap = "False")
        => /\ response' = render_template_login(WrongCredentials)
           /\ ~request'.wrapped
           /\ emitted' = <<track_activity("wrong login password for user using LDAP auth",
                                          request'.username)>>
           /\ users' = users
           /\ session'[request'.browser] = [session[request'.browser] EXCEPT !.permanent = TRUE]
      ]_vars

\* the directory rejected a user whose local password matches, without fallback
C11_Witness ==
    /\ LoginSubmission
    /\ config.type = "ldap"
    /\ ~config.local_fallback
    /\ request.ldap = "False"
    /\ request.username = "alice"
    /\ request.password = PasswordOf("alice")

\* C12: when the directory call raises, the submission is answered the
\* service unavailable page and not the wrong credentials page, the text of
\* the fault is in the server log and in no field of the response, and the
\* session is not bound to a user.
C12_DirectoryFaultUnavailable ==
    (LoginSubmission /\ request.ldap = "raise")
        => /\ response = render_template_login(LdapUnavailable)
           /\ response.msg # WrongCredentials
           /\ logged = <<"LDAPException">>
           /\ \A i \in 1..Len(logged) :
                 response.msg # logged[i] /\ response.flash # logged[i]
           /\ ~Authenticated(Browser)

\* the directory raised on a submission with a known user's local password
C12_Witness ==
    /\ LoginSubmission
    /\ request.ldap = "raise"
    /\ request.username = "alice"
    /\ request.password = PasswordOf("alice")
    /\ logged # <<>>

\* C13: a finalization of a user whose ctx_case is unset assigns the lowest
\* id among the existing cases and persists it on the row; a ctx_case that
\* is set is never changed, and every finalization puts the row's ctx_case
\* in the session, whatever cases exist then.
C13_LowestCasePersists ==
    [][ \A u \in Users :
          /\ users[u].ctx_case # NoCase => users'[u].ctx_case = users[u].ctx_case
          /\ (request'.finalized /\ session'[request'.browser].user_id = u)
                => /\ users[u].ctx_case = NoCase
                        => /\ users'[u].ctx_case \in cases
                           /\ \A d \in cases : users'[u].ctx_case <= d
                   /\ session'[request'.browser].current_case.case_id = users'[u].ctx_case
      ]_vars

\* a finalization used the case assigned earlier while a lower one exists
C13_Witness ==
    /\ request.finalized
    /\ Authenticated(Browser)
    /\ session[Browser].current_case.case_id = users[session[Browser].user_id].ctx_case
    /\ \E d \in cases : d < users[session[Browser].user_id].ctx_case

\* urlsplit(url).query: what follows the first '?'
Query(url) ==
    LET marks == {i \in 1..Len(url) : url[i] = "?"}
    IN IF marks = {} THEN <<>>
       ELSE SubSeq(url, (CHOOSE i \in marks : \A k \in marks : i <= k) + 1, Len(url))

\* the parameters of the query: its parts between '&'
QueryParams(url) ==
    LET q == Query(url)
        IsPart(i, j) ==
            /\ i <= j
            /\ \A k \in i..j : q[k] # "&"
            /\ (i = 1 \/ q[i - 1] = "&")
            /\ (j = Len(q) \/ q[j + 1] = "&")
    IN {SubSeq(q, i, j) : <<i, j>> \in {ij \in (1..Len(q)) \X (1..Len(q)) : IsPart(ij[1], ij[2])}}

CarriesCid(url) == \E param \in QueryParams(url) : param[1] = "cid="

\* C14: for a `next` without a network location, the finalize step
\* redirects to `next` itself when its query has a cid parameter, and
\* otherwise to `next` followed by the case id, a URL whose query has the
\* parameter cid=<the user's ctx_case>.
C14_NextAugmentedWithCid ==
    (request.finalized /\ request.next # <<>> /\ Netloc(request.next) = <<>>)
        => LET cid == users[session[Browser].user_id].ctx_case
           IN /\ response.kind = "redirect"
              /\ CarriesCid(request.next) => response.location = request.next
              /\ ~CarriesCid(request.next)
                    => /\ SubSeq(response.location, 1, Len(request.next)) = request.next
                       /\ <<"cid=", ToString(cid)>> \in QueryParams(response.location)

\* C15: a request that finalizes a login emits the "successfully logged-in"
\* audit event exactly once.
LoggedInEvents ==
    {i \in 1..Len(emitted) : emitted[i].text = "user successfully logged-in"}

C15_LoggedInAuditedOnce ==
    request.finalized => Cardinality(LoggedInEvents) = 1

\* C20: in every mode, a login submission with the username of a service
\* account does not enter wrap_login_user and does not bind the session.
C20_ServiceAccountNeverWrapped ==
    (LoginSubmission /\ request.username \in Users /\ IsServiceAccount(request.username))
        => /\ ~request.wrapped
           /\ ~Authenticated(Browser)

\* a login submission that credential verification rejected: it returned
\* without handing the user to wrap_login_user
CredentialsRejected(req) ==
    /\ req.route = "login"
    /\ req.username # "-"
    /\ ~req.wrapped

\* the same submission with another username, in the same state
WithUsername(s, req, username) ==
    login(session[s], users, cases, config, TRUE, TRUE, username, req.password,
          IF req.ldap = "-" THEN "True" ELSE req.ldap,
          IF req.next = NotRead THEN <<>> ELSE req.next)

\* C16: of two rejected submissions that differ only in the username, one
\* that exists and one that does not, with the directory answering, both
\* are answered the same wrong credentials page and leave the same
\* session, which is the session as it was.
C16_UsernameExistenceHidden ==
    [][ (CredentialsRejected(request') /\ request'.ldap # "raise")
        => \A username \in Usernames :
             LET other == WithUsername(request'.browser, request', username)
             IN ((username \in Users) # (request'.username \in Users) /\ ~other.wrapped)
                  => /\ response' = render_template_login(WrongCredentials)
                     /\ other.resp = response'
                     /\ other.sess = session'[request'.browser]
                     /\ session'[request'.browser] =
                            [session[request'.browser] EXCEPT !.permanent = TRUE]
      ]_vars

\* an existing user was rejected in local mode with a password that an
\* unknown username is rejected with as well
C16_Witness ==
    /\ CredentialsRejected(request)
    /\ config.type = "local"
    /\ request.username = "alice"
    /\ request.password # PasswordOf("alice")
    /\ response = render_template_login(WrongCredentials)

\* C18: a rejected login submission, answered wrong credentials or
\* directory unavailable, leaves the pending username, the marker, the
\* bound user, the permissions and the case context of the session and the
\* user table as they were.
C18_FailedLoginFrame ==
    [][ CredentialsRejected(request')
        => /\ response' \in {render_template_login(WrongCredentials),
                              render_template_login(LdapUnavailable)}
           /\ session'[request'.browser] =
                  [session[request'.browser] EXCEPT !.permanent = TRUE]
           /\ users' = users
      ]_vars

\* a submission was rejected in a session that holds a pending username of
\* another user
C18_Witness ==
    /\ CredentialsRejected(request)
    /\ session[Browser].username \in Users
    /\ session[Browser].username # request.username
    /\ session[Browser].mfa_verified = "False"

\* C17: a request to /auth/mfa-verify without a pending username is
\* redirected to /login; one with a pending username ends with the marker
\* True only if it verified a token, and one that verified no token (a GET,
\* an empty or a wrong token) ends with the marker not True and the session
\* not bound to a user.
C17_MarkerResetOnVerify ==
    [][ request'.route = "mfa_verify"
        => /\ session[request'.browser].username = None
                => response' = Redirect(UrlLogin)
           /\ session[request'.browser].username # None
                => /\ session'[request'.browser].mfa_verified = "True" => request'.verified
                   /\ ~request'.verified
                        => /\ session'[request'.browser].mfa_verified # "True"
                           /\ session'[request'.browser].user_id = None
      ]_vars

\* C19: every response of /auth/mfa-setup that shows the enrollment code
\* computes it from a secret that is not None and is the one persisted on
\* the user's row, so that a user who scans it and submits its tokens can
\* complete the enrollment and reach a finalized login.
C19_EnrollmentFromPersistedSecret ==
    (request.route = "mfa_setup" /\ response.kind = "render"
        /\ response.template = "mfa_setup.html")
        => /\ response.qr # None
           /\ response.qr = users[session[Browser].user_id].mfa_secrets
=============================================================================
